---- MODULE Spec2Model ----
(***************************************************************************)
(* Model of the MongoDB account-provisioning scripts of the replication    *)
(* kit: setupMongoDB.js (four blocks: testRun, test, admin, vcsshark) and  *)
(* its shorter variant (two blocks: testRun, admin).                       *)
(*                                                                         *)
(* A script is a list of shell statements.  Each block is                  *)
(*     use <db>  ;  db.dropUser("root")  ;  db.createUser({...} [, wc])    *)
(* The scripts start with the shell helper `use`, so they are fed to the   *)
(* administrative shell statement by statement.  The model keeps the       *)
(* server's accounts, and for every shell session the statement it is at,  *)
(* the selected database and the log of what it issued and what came back. *)
(***************************************************************************)
EXTENDS Integers, Sequences, FiniteSets, TLC

VARIABLES
    users,       \* the server's accounts: a set of [db, user, pwd, roles]
    status,      \* per session: "idle", "ready", "waiting", "done", "aborted"
    pc,          \* per session: index of the statement it is at
    cur,         \* per session: the database selected by the last `use`
    file,        \* per session: which script is fed to the shell
    log,         \* per session: what was issued and what the server replied
    before,      \* per session: the accounts when the current run started
    history,     \* the runs that have ended, in the order they ended
    runsLeft,    \* per session: how many more times the operator runs it
    faultsLeft   \* how many more environment faults may occur

vars == <<users, status, pc, cur, file, log, before, history, runsLeft, faultsLeft>>

----------------------------------------------------------------------------
(* Bounds of the exploration *)

MaxRuns == 2      \* successive runs of the script in the re-run scenario
MaxFaults == 1    \* environment faults (privilege, connectivity, ...) per behaviour

----------------------------------------------------------------------------
(* The statements *)

Sessions == {"A", "B"}

\* A role written as a bare string carries no database of its own.
Bare == "<bare>"

RoleIn(r, d) == [role |-> r, db |-> d]
BareRole(r) == [role |-> r, db |-> Bare]

\* { w: "majority", wtimeout: 5000 }
Majority5000 == [w |-> "majority", wtimeout |-> 5000]
\* createUser called without a second argument: no wtimeout, wait however long
NoWriteConcern == [w |-> "default", wtimeout |-> 0]

NoRoles == << >>

UseStmt(d) ==
    [op |-> "use", db |-> d, user |-> "", pwd |-> "", roles |-> NoRoles,
     wc |-> NoWriteConcern]

DropUserStmt(u) ==
    [op |-> "dropUser", db |-> "", user |-> u, pwd |-> "", roles |-> NoRoles,
     wc |-> NoWriteConcern]

CreateUserStmt(u, p, rs, w) ==
    [op |-> "createUser", db |-> "", user |-> u, pwd |-> p, roles |-> rs, wc |-> w]

\* roles: [ {role: "clusterAdmin", db: "admin"}, {role: "readAnyDatabase", db: "admin"}, "readWrite" ]
StandardRoles ==
    << RoleIn("clusterAdmin", "admin"), RoleIn("readAnyDatabase", "admin"),
       BareRole("readWrite") >>

\* roles: [ {role: "readWrite", db: "config"}, "clusterAdmin" ]
AdminRoles == << RoleIn("readWrite", "config"), BareRole("clusterAdmin") >>

TestRunBlock ==
    << UseStmt("testRun"), DropUserStmt("root"),
       CreateUserStmt("root", "balla1234$", StandardRoles, Majority5000) >>

TestBlock ==
    << UseStmt("test"), DropUserStmt("root"),
       CreateUserStmt("root", "root", StandardRoles, Majority5000) >>

AdminBlock ==
    << UseStmt("admin"), DropUserStmt("root"),
       CreateUserStmt("root", "balla1234$", AdminRoles, NoWriteConcern) >>

VcssharkBlock ==
    << UseStmt("vcsshark"), DropUserStmt("root"),
       CreateUserStmt("root", "root", StandardRoles, Majority5000) >>

\* Variant: every block creates first and drops afterwards.
CreateFirst(b) == << b[1], b[3], b[2] >>

SetupMongoDBCreateFirst ==
    CreateFirst(TestRunBlock) \o CreateFirst(TestBlock)
        \o CreateFirst(AdminBlock) \o CreateFirst(VcssharkBlock)

SetupMongoDB == TestRunBlock \o TestBlock \o AdminBlock \o VcssharkBlock

Part000 == TestRunBlock \o AdminBlock

Files == {"setupMongoDB.js", "part_000"}

Script(f) == IF f = "setupMongoDB.js" THEN SetupMongoDB ELSE Part000

----------------------------------------------------------------------------
(* The server's user-management commands *)

TargetDbs == {"testRun", "test", "admin", "vcsshark"}

\* The database a freshly started shell has selected before any `use`.
DefaultDb == "test"

Exists(us, d, u) == \E a \in us : a.db = d /\ a.user = u

\* Variant: a bare role name is granted on admin, whatever is selected.
ResolveRoleOnAdmin(r, d) == IF r.db = Bare THEN RoleIn(r.role, "admin") ELSE r

\* A bare role name is granted on the database the account is created in.
ResolveRole(r, d) == IF r.db = Bare THEN RoleIn(r.role, d) ELSE r

ResolveRoles(rs, d) == { ResolveRole(rs[i], d) : i \in DOMAIN rs }

NewAccount(d, st) ==
    [db |-> d, user |-> st.user, pwd |-> st.pwd, roles |-> ResolveRoles(st.roles, d)]

\* Variant: the drop removes nothing.
DropUserKeeps(us, d, u) == us

\* Variant: the drop removes the name in every database.
DropUserEverywhere(us, d, u) == { a \in us : a.user # u }

\* db.dropUser(u) with database d selected: removes u@d, nothing else.
DropUser(us, d, u) == { a \in us : ~(a.db = d /\ a.user = u) }

\* db.createUser(st) with database d selected, once the server accepts it.
CreateUser(us, d, st) == us \cup { NewAccount(d, st) }

\* What the shell does with a statement that raised an error.  The scripts
\* hold no try/catch and no check of a return value: an error either ends
\* the session or is printed and the next statement is read.
Reactions == {"abort", "continue"}

----------------------------------------------------------------------------
(* A shell session *)

Stmt(s) == Script(file[s])[pc[s]]

ErrorKinds == {"denied", "rejected", "duplicate", "wtimeout"}

\* Faults that come from the environment and not from the accounts' state.
FaultKinds == {"denied", "rejected", "wtimeout"}

Last(l) == l[Len(l)]

Entry(e, i, st, d, f) == [ev |-> e, stmt |-> i, op |-> st.op, db |-> d, found |-> f]

Ended(s, newStatus, newUsers, newLog) ==
    IF newStatus \in {"done", "aborted"}
    THEN history' = Append(history,
             [session |-> s, file |-> file[s], end |-> newStatus,
              before |-> before[s], after |-> newUsers, log |-> newLog])
    ELSE history' = history

\* Variant: a statement that raised an error is read again.
ReturnedRetries(s, newLog, newUsers, stop) ==
    LET failed == Last(newLog).ev \in ErrorKinds
        newStatus == IF failed THEN "ready"
                     ELSE IF pc[s] = Len(Script(file[s])) THEN "done"
                     ELSE "ready"
    IN /\ log' = [log EXCEPT ![s] = newLog]
       /\ status' = [status EXCEPT ![s] = newStatus]
       /\ pc' = [pc EXCEPT ![s] = IF newStatus = "ready" /\ ~failed THEN @ + 1 ELSE @]
       /\ Ended(s, newStatus, newUsers, newLog)

\* The statement at pc[s] has returned: the shell reads the next one, or the
\* input is exhausted, or (stop) the session ends here.
Returned(s, newLog, newUsers, stop) ==
    LET newStatus == IF stop THEN "aborted"
                     ELSE IF pc[s] = Len(Script(file[s])) THEN "done"
                     ELSE "ready"
    IN /\ log' = [log EXCEPT ![s] = newLog]
       /\ status' = [status EXCEPT ![s] = newStatus]
       /\ pc' = [pc EXCEPT ![s] = IF newStatus = "ready" THEN @ + 1 ELSE @]
       /\ Ended(s, newStatus, newUsers, newLog)

\* The operator feeds the script to a new shell.
Launch(s) ==
    /\ status[s] \in {"idle", "done", "aborted"}
    /\ runsLeft[s] > 0
    /\ runsLeft' = [runsLeft EXCEPT ![s] = @ - 1]
    /\ status' = [status EXCEPT ![s] = "ready"]
    /\ pc' = [pc EXCEPT ![s] = 1]
    /\ cur' = [cur EXCEPT ![s] = DefaultDb]
    /\ log' = [log EXCEPT ![s] = << >>]
    /\ before' = [before EXCEPT ![s] = users]
    /\ UNCHANGED <<users, file, history, faultsLeft>>

\* use <db>: handled by the shell itself, no request to the server.
Use(s) ==
    /\ status[s] = "ready"
    /\ Stmt(s).op = "use"
    /\ cur' = [cur EXCEPT ![s] = Stmt(s).db]
    /\ Returned(s, log[s] \o << Entry("issue", pc[s], Stmt(s), Stmt(s).db, FALSE),
                                 Entry("ok", pc[s], Stmt(s), Stmt(s).db, FALSE) >>,
                users, FALSE)
    /\ UNCHANGED <<users, file, before, runsLeft, faultsLeft>>

\* Variant: the statement is sent and the next one is read at once.
IssueWithoutWaiting(s) ==
    /\ status[s] = "ready"
    /\ Stmt(s).op \in {"dropUser", "createUser"}
    /\ pc[s] < Len(Script(file[s]))
    /\ pc' = [pc EXCEPT ![s] = @ + 1]
    /\ log' = [log EXCEPT ![s] = Append(@, Entry("issue", pc[s], Stmt(s), cur[s], FALSE))]
    /\ UNCHANGED <<users, status, cur, file, before, history, runsLeft, faultsLeft>>

\* db.dropUser / db.createUser is sent; the shell blocks until the reply.
Issue(s) ==
    /\ status[s] = "ready"
    /\ Stmt(s).op \in {"dropUser", "createUser"}
    /\ status' = [status EXCEPT ![s] = "waiting"]
    /\ log' = [log EXCEPT ![s] = Append(@, Entry("issue", pc[s], Stmt(s), cur[s], FALSE))]
    /\ UNCHANGED <<users, pc, cur, file, before, history, runsLeft, faultsLeft>>

\* Variant: a drop of a missing account is reported as an error.
DropUserReplyStrict(s) ==
    /\ status[s] = "waiting"
    /\ Stmt(s).op = "dropUser"
    /\ LET found == Exists(users, cur[s], Stmt(s).user)
           after == DropUser(users, cur[s], Stmt(s).user)
       IN /\ users' = after
          /\ IF found
             THEN Returned(s, Append(log[s], Entry("ok", pc[s], Stmt(s), cur[s], TRUE)),
                           after, FALSE)
             ELSE \E r \in Reactions :
                      Returned(s, Append(log[s], Entry("denied", pc[s], Stmt(s), cur[s], FALSE)),
                               after, r = "abort")
    /\ UNCHANGED <<cur, file, before, runsLeft, faultsLeft>>

\* The server answers db.dropUser("root"): true when the account was there,
\* false when it was not; neither is an error.
DropUserReply(s) ==
    /\ status[s] = "waiting"
    /\ Stmt(s).op = "dropUser"
    /\ LET found == Exists(users, cur[s], Stmt(s).user)
           after == DropUser(users, cur[s], Stmt(s).user)
       IN /\ users' = after
          /\ Returned(s, Append(log[s], Entry("ok", pc[s], Stmt(s), cur[s], found)),
                      after, FALSE)
    /\ UNCHANGED <<cur, file, before, runsLeft, faultsLeft>>

\* The server answers db.createUser(...): the account is added, or the call
\* is refused because the name is taken in the selected database.
CreateUserReply(s) ==
    /\ status[s] = "waiting"
    /\ Stmt(s).op = "createUser"
    /\ \/ /\ ~Exists(users, cur[s], Stmt(s).user)
          /\ LET after == CreateUser(users, cur[s], Stmt(s))
             IN /\ users' = after
                /\ Returned(s, Append(log[s], Entry("ok", pc[s], Stmt(s), cur[s], FALSE)),
                            after, FALSE)
       \/ /\ Exists(users, cur[s], Stmt(s).user)
          /\ users' = users
          /\ \E r \in Reactions :
                Returned(s, Append(log[s], Entry("duplicate", pc[s], Stmt(s), cur[s], TRUE)),
                         users, r = "abort")
    /\ UNCHANGED <<cur, file, before, runsLeft, faultsLeft>>

\* db.dropUser fails for another reason than a missing account
\* (privilege, connectivity): nothing is removed.
DropUserFails(s) ==
    /\ status[s] = "waiting"
    /\ Stmt(s).op = "dropUser"
    /\ faultsLeft > 0
    /\ faultsLeft' = faultsLeft - 1
    /\ users' = users
    /\ \E r \in Reactions :
          Returned(s, Append(log[s], Entry("denied", pc[s], Stmt(s), cur[s], FALSE)),
                   users, r = "abort")
    /\ UNCHANGED <<cur, file, before, runsLeft>>

\* db.createUser is refused (privilege, connectivity, malformed role):
\* nothing is added.
CreateUserFails(s) ==
    /\ status[s] = "waiting"
    /\ Stmt(s).op = "createUser"
    /\ faultsLeft > 0
    /\ faultsLeft' = faultsLeft - 1
    /\ users' = users
    /\ \E r \in Reactions :
          Returned(s, Append(log[s], Entry("rejected", pc[s], Stmt(s), cur[s], FALSE)),
                   users, r = "abort")
    /\ UNCHANGED <<cur, file, before, runsLeft>>

\* db.createUser with { w: "majority", wtimeout: 5000 }: the account is
\* written, the replicas do not acknowledge within wtimeout, and the call
\* returns an error; the write is not undone.
CreateUserTimesOut(s) ==
    /\ status[s] = "waiting"
    /\ Stmt(s).op = "createUser"
    /\ Stmt(s).wc.wtimeout > 0
    /\ ~Exists(users, cur[s], Stmt(s).user)
    /\ faultsLeft > 0
    /\ faultsLeft' = faultsLeft - 1
    /\ LET after == CreateUser(users, cur[s], Stmt(s))
       IN /\ users' = after
          /\ \E r \in Reactions :
                Returned(s, Append(log[s], Entry("wtimeout", pc[s], Stmt(s), cur[s], FALSE)),
                         after, r = "abort")
    /\ UNCHANGED <<cur, file, before, runsLeft>>

----------------------------------------------------------------------------
(* Initial states *)

\* The account each block of setupMongoDB.js writes.
Configured(d) ==
    CASE d = "testRun"  -> NewAccount(d, TestRunBlock[3])
      [] d = "test"     -> NewAccount(d, TestBlock[3])
      [] d = "admin"    -> NewAccount(d, AdminBlock[3])
      [] d = "vcsshark" -> NewAccount(d, VcssharkBlock[3])

\* A root account left by some earlier administration: other password,
\* other roles (one of them a role the scripts never grant).
OldRoot(d) ==
    [db |-> d, user |-> "root", pwd |-> "old",
     roles |-> {RoleIn("dbOwner", d), RoleIn("clusterAdmin", "admin")}]

\* An account under another name.
Guest(d) == [db |-> d, user |-> "guest", pwd |-> "guest", roles |-> {RoleIn("read", d)}]

RootOptions == {"absent", "old", "same"}

GuestDbs == {"testRun", "vcsshark"}

AccountsOf(f, g) ==
    { OldRoot(d) : d \in { x \in TargetDbs : f[x] = "old" } }
      \cup { Configured(d) : d \in { x \in TargetDbs : f[x] = "same" } }
      \cup { Guest(d) : d \in g }

InitialAccounts ==
    { AccountsOf(f, g) : f \in [TargetDbs -> RootOptions], g \in SUBSET GuestDbs }

InitSessions ==
    /\ status = [s \in Sessions |-> "idle"]
    /\ pc = [s \in Sessions |-> 1]
    /\ cur = [s \in Sessions |-> DefaultDb]
    /\ log = [s \in Sessions |-> << >>]
    /\ before = [s \in Sessions |-> users]
    /\ history = << >>

\* One session, one run of either script, on a server in any initial state.
Init ==
    /\ users \in InitialAccounts
    /\ file \in { [s \in Sessions |-> f] : f \in Files }
    /\ runsLeft = [s \in Sessions |-> IF s = "A" THEN 1 ELSE 0]
    /\ faultsLeft = MaxFaults
    /\ InitSessions

\* One session on a fresh server, the script run again after it ended.
InitTwice ==
    /\ users = {}
    /\ file \in { [s \in Sessions |-> f] : f \in Files }
    /\ runsLeft = [s \in Sessions |-> IF s = "A" THEN MaxRuns ELSE 0]
    /\ faultsLeft = MaxFaults
    /\ InitSessions

\* Two copies of setupMongoDB.js against the same server, no other fault.
InitRace ==
    /\ users \in { AccountsOf(f, {}) : f \in [TargetDbs -> {"absent", "old"}] }
    /\ file = [s \in Sessions |-> "setupMongoDB.js"]
    /\ runsLeft = [s \in Sessions |-> 1]
    /\ faultsLeft = 0
    /\ InitSessions

Next ==
    \E s \in Sessions :
        \/ Launch(s)
        \/ Use(s)
        \/ Issue(s)
        \/ DropUserReply(s)
        \/ CreateUserReply(s)
        \/ DropUserFails(s)
        \/ CreateUserFails(s)
        \/ CreateUserTimesOut(s)

NextRace ==
    \E s \in Sessions :
        \/ Launch(s)
        \/ Use(s)
        \/ Issue(s)
        \/ DropUserReply(s)
        \/ CreateUserReply(s)

Spec == Init /\ [][Next]_vars

SpecTwice == InitTwice /\ [][Next]_vars

SpecRace == InitRace /\ [][NextRace]_vars

----------------------------------------------------------------------------
(* Vocabulary of the properties *)

Clean(l) == \A k \in DOMAIN l : l[k].ev \notin ErrorKinds

FaultFree(l) == \A k \in DOMAIN l : l[k].ev \notin FaultKinds

HasEntry(l, e, o, d) == \E k \in DOMAIN l : l[k].ev = e /\ l[k].op = o /\ l[k].db = d

Roots(us, d) == { a \in us : a.db = d /\ a.user = "root" }

AccountsIn(us, d) == { a \in us : a.db = d }

\* The role sets and passwords the properties expect, written out.
ExpectedRoles(d) ==
    IF d = "admin"
    THEN { RoleIn("readWrite", "config"), RoleIn("clusterAdmin", "admin") }
    ELSE { RoleIn("clusterAdmin", "admin"), RoleIn("readAnyDatabase", "admin"),
           RoleIn("readWrite", d) }

ExpectedPwd(d) == IF d \in {"testRun", "admin"} THEN "balla1234$" ELSE "root"

ExpectedRoot(d) ==
    [db |-> d, user |-> "root", pwd |-> ExpectedPwd(d), roles |-> ExpectedRoles(d)]

\* A run of setupMongoDB.js that reached its last statement with no error.
FullCleanRun(r) == r.file = "setupMongoDB.js" /\ r.end = "done" /\ Clean(r.log)

----------------------------------------------------------------------------
(* C1: after a complete, failure-free run of setupMongoDB.js each of       *)
(* testRun, test, admin and vcsshark holds exactly one account named root, *)
(* with the role set {clusterAdmin@admin, readAnyDatabase@admin,           *)
(* readWrite@<that database>}, and {readWrite@config, clusterAdmin@admin}  *)
(* for admin.                                                              *)
C1_ConfiguredRoles ==
    \A i \in DOMAIN history :
        FullCleanRun(history[i]) =>
            \A d \in TargetDbs :
                /\ Cardinality(Roots(history[i].after, d)) = 1
                /\ \A a \in Roots(history[i].after, d) : a.roles = ExpectedRoles(d)

C1_Witness ==
    \E i \in DOMAIN history :
        /\ FullCleanRun(history[i])
        /\ OldRoot("test") \in history[i].before
        /\ Guest("testRun") \in history[i].before

(* C3: whatever the root accounts were before (absent, or present with any *)
(* password and roles), a failure-free run of setupMongoDB.js ends with    *)
(* root in each database carrying exactly the script's password and roles; *)
(* an existing root is replaced, and while the run has seen no error       *)
(* createUser is never waiting on a database where root still exists.      *)
C3_InitialStateIrrelevant ==
    /\ \A i \in DOMAIN history :
           FullCleanRun(history[i]) =>
               \A d \in TargetDbs : Roots(history[i].after, d) = {ExpectedRoot(d)}
    /\ \A s \in Sessions :
           (status[s] = "waiting" /\ Stmt(s).op = "createUser" /\ Clean(log[s]))
               => ~Exists(users, cur[s], "root")

C3_Witness ==
    \E i \in DOMAIN history :
        /\ FullCleanRun(history[i])
        /\ \A d \in TargetDbs : OldRoot(d) \in history[i].before

(* C4: statements go out in source order, each only after the reply to the *)
(* previous one: the databases are taken in the order testRun, test,       *)
(* admin, vcsshark, within a database use, dropUser, createUser; a         *)
(* createUser is never issued before the reply to the dropUser of the same *)
(* database, and nothing for a later database before the reply to the      *)
(* createUser of the earlier one.                                          *)
ExpectedOrder(f) ==
    IF f = "setupMongoDB.js"
    THEN << <<"use", "testRun">>,  <<"dropUser", "testRun">>,  <<"createUser", "testRun">>,
            <<"use", "test">>,     <<"dropUser", "test">>,     <<"createUser", "test">>,
            <<"use", "admin">>,    <<"dropUser", "admin">>,    <<"createUser", "admin">>,
            <<"use", "vcsshark">>, <<"dropUser", "vcsshark">>, <<"createUser", "vcsshark">> >>
    ELSE << <<"use", "testRun">>,  <<"dropUser", "testRun">>,  <<"createUser", "testRun">>,
            <<"use", "admin">>,    <<"dropUser", "admin">>,    <<"createUser", "admin">> >>

C4_SourceOrder ==
    \A s \in Sessions :
        \A k \in DOMAIN log[s] :
            LET e == log[s][k] IN
            IF e.ev = "issue"
            THEN /\ e.stmt \in DOMAIN ExpectedOrder(file[s])
                 /\ <<e.op, e.db>> = ExpectedOrder(file[s])[e.stmt]
                 /\ IF k = 1 THEN e.stmt = 1
                    ELSE /\ log[s][k - 1].ev # "issue"
                         /\ log[s][k - 1].stmt = e.stmt - 1
            ELSE /\ k > 1
                 /\ log[s][k - 1].ev = "issue"
                 /\ log[s][k - 1].stmt = e.stmt

C4_Witness ==
    /\ status["A"] = "done"
    /\ file["A"] = "setupMongoDB.js"
    /\ Len(log["A"]) = 2 * Len(SetupMongoDB)

(* C5: dropUser("root") on a database without root changes no account,     *)
(* raises no error and does not stop the script; on a fresh server the     *)
(* script issues every createUser and reaches its end.                     *)
C5_Step ==
    \A s \in Sessions :
        /\ ( /\ status[s] = "waiting"
             /\ Stmt(s).op = "dropUser"
             /\ ~Exists(users, cur[s], Stmt(s).user)
             /\ status'[s] # "waiting"
             /\ faultsLeft' = faultsLeft )
           => ( /\ users' = users
                /\ Last(log'[s]).ev = "ok"
                /\ status'[s] \in {"ready", "done"} )
        /\ ( /\ status'[s] \in {"done", "aborted"}
             /\ before'[s] = {}
             /\ FaultFree(log'[s]) )
           => ( /\ status'[s] = "done"
                /\ Clean(log'[s])
                /\ \A k \in DOMAIN Script(file[s]) :
                       Script(file[s])[k].op = "createUser"
                           => \E j \in DOMAIN log'[s] :
                                  log'[s][j].stmt = k /\ log'[s][j].ev = "ok" )

C5_DropOfMissingRootIsNoOp == [][C5_Step]_vars

C5_Witness ==
    /\ status["A"] = "done"
    /\ before["A"] = {}
    /\ file["A"] = "setupMongoDB.js"
    /\ \A k \in DOMAIN log["A"] :
           log["A"][k].op = "dropUser" => log["A"][k].found = FALSE

(* C6 as stated: when a dropUser or createUser fails for another reason    *)
(* than a missing account, no later statement of the script is executed in *)
(* that session, the failed statement is not retried, and the accounts of  *)
(* every database whose block comes later are as they were before the run. *)
LaterDbs(f, i) ==
    { Script(f)[j].db : j \in { x \in DOMAIN Script(f) : x > i /\ Script(f)[x].op = "use" } }

IssuedOnce(l) ==
    \A j, k \in DOMAIN l :
        (l[j].ev = "issue" /\ l[k].ev = "issue" /\ l[j].stmt = l[k].stmt) => j = k

DroppedNotCreated(r, d) ==
    /\ HasEntry(r.log, "ok", "dropUser", d)
    /\ ~HasEntry(r.log, "ok", "createUser", d)

C7_AbsentAfterStop ==
    \A i \in DOMAIN history :
        \A d \in TargetDbs :
            DroppedNotCreated(history[i], d) => Roots(history[i].after, d) = {}

(* C7 amended: in that case root is absent from the database and the       *)
(* previous account is not restored, unless the createUser failed on its   *)
(* write-concern timeout ({ w: "majority", wtimeout: 5000 }; testRun, test *)
(* and vcsshark blocks): then the new account has been written and root is *)
(* present with the script's password and roles.  The admin block passes   *)
(* no write concern, and there root is always absent.                      *)
C7_AbsentUnlessWriteConcernTimeout ==
    \A i \in DOMAIN history :
        \A d \in TargetDbs :
            DroppedNotCreated(history[i], d) =>
                IF HasEntry(history[i].log, "wtimeout", "createUser", d)
                THEN d # "admin" /\ Roots(history[i].after, d) = {ExpectedRoot(d)}
                ELSE Roots(history[i].after, d) = {}

C7_Witness ==
    \E i \in DOMAIN history :
        /\ history[i].end = "aborted"
        /\ OldRoot("admin") \in history[i].before
        /\ DroppedNotCreated(history[i], "admin")
        /\ Last(history[i].log).ev = "rejected"
        /\ Roots(history[i].after, "admin") = {}

(* C10: a dropUser/createUser pair changes only the account root of the    *)
(* database selected by the use just before it; other names and the roots  *)
(* of other databases stay.  A complete run of the shorter script leaves   *)
(* test and vcsshark as they were and testRun and admin as the full        *)
(* setupMongoDB.js leaves them.                                            *)
RECURSIVE Execute(_, _, _, _)
Execute(script, i, d, us) ==
    IF i > Len(script) THEN us
    ELSE LET st == script[i] IN
         CASE st.op = "use" -> Execute(script, i + 1, st.db, us)
           [] st.op = "dropUser" -> Execute(script, i + 1, d, DropUser(us, d, st.user))
           [] st.op = "createUser" ->
                  Execute(script, i + 1, d,
                          IF Exists(us, d, st.user) THEN us ELSE CreateUser(us, d, st))

PrecedingUse(f, i) ==
    LET j == CHOOSE x \in 1..i :
                 /\ Script(f)[x].op = "use"
                 /\ \A y \in (x + 1)..i : Script(f)[y].op # "use"
    IN Script(f)[j].db

C10_Step ==
    /\ \A a \in (users \ users') \cup (users' \ users) :
           /\ a.user = "root"
           /\ \E s \in Sessions :
                  /\ status[s] = "waiting"
                  /\ status'[s] # "waiting"
                  /\ a.db = PrecedingUse(file[s], pc[s])
    /\ \A i \in DOMAIN history' :
           LET r == history'[i] IN
           (r.file = "part_000" /\ r.end = "done" /\ Clean(r.log)) =>
               /\ \A d \in {"test", "vcsshark"} :
                      AccountsIn(r.after, d) = AccountsIn(r.before, d)
               /\ \A d \in {"testRun", "admin"} :
                      AccountsIn(r.after, d)
                          = AccountsIn(Execute(SetupMongoDB, 1, DefaultDb, r.before), d)

C10_Frame == [][C10_Step]_vars

C10_Witness ==
    \E i \in DOMAIN history :
        /\ history[i].file = "part_000"
        /\ history[i].end = "done"
        /\ Clean(history[i].log)
        /\ {OldRoot("testRun"), OldRoot("admin")} \subseteq history[i].before
        /\ {OldRoot("test"), OldRoot("vcsshark"), Guest("vcsshark"), Guest("testRun")}
               \subseteq history[i].after

(* C2: setupMongoDB.js run to its end on a fresh server and then run to    *)
(* its end a second time: the second run meets no error of its own making  *)
(* and leaves the accounts (per database, with passwords and roles)        *)
(* exactly as the first run left them.                                     *)
C2_SecondRunSameState ==
    ( /\ Len(history) >= 2
      /\ history[1].before = {}
      /\ FullCleanRun(history[1])
      /\ FaultFree(history[2].log) )
    => ( /\ FullCleanRun(history[2])
         /\ history[2].before = history[1].after
         /\ history[2].after = history[1].after )

C2_Witness ==
    /\ Len(history) >= 2
    /\ history[1].before = {}
    /\ FullCleanRun(history[1])
    /\ FullCleanRun(history[2])
    /\ \E k \in DOMAIN history[2].log : history[2].log[k].found

(* C8: with two copies of the script interleaved statement by statement,   *)
(* a copy can be waiting on createUser in a database where root exists     *)
(* although its own dropUser there succeeded, and that createUser is then  *)
(* refused; this happens only when the other copy has created root there:  *)
(* a copy running alone never gets there.                                  *)
Other(s) == CHOOSE t \in Sessions : t # s

DropSucceededJustBefore(l) ==
    /\ Len(l) >= 2
    /\ l[Len(l) - 1].op = "dropUser"
    /\ l[Len(l) - 1].ev = "ok"

RacedCreate(s) ==
    /\ status[s] = "waiting"
    /\ Stmt(s).op = "createUser"
    /\ DropSucceededJustBefore(log[s])
    /\ Exists(users, cur[s], "root")

C8_OnlyTheOtherCopy ==
    \A s \in Sessions :
        RacedCreate(s) =>
            /\ status[Other(s)] # "idle"
            /\ HasEntry(log[Other(s)], "ok", "createUser", cur[s])

C8_Witness ==
    \E s \in Sessions :
        /\ Len(log[s]) >= 3
        /\ Last(log[s]).ev = "duplicate"
        /\ DropSucceededJustBefore(SubSeq(log[s], 1, Len(log[s]) - 1))
        /\ HasEntry(log[Other(s)], "ok", "createUser", Last(log[s]).db)

(* C9: two copies of setupMongoDB.js, the only failures being createUser   *)
(* refused because root exists, a refused copy ending there: once both     *)
(* copies have stopped, at least one has reached its end and each of       *)
(* testRun, test, admin and vcsshark holds exactly one root with the       *)
(* configured roles; root is never left absent.                            *)
WentOnAfterError(l) ==
    \E k \in DOMAIN l : l[k].ev \in ErrorKinds /\ k < Len(l)

C9_RaceEndsProvisioned ==
    ( /\ \A s \in Sessions : status[s] \in {"done", "aborted"}
      /\ \A s \in Sessions : ~WentOnAfterError(log[s]) )
    => ( /\ \E s \in Sessions : status[s] = "done"
         /\ \A d \in TargetDbs :
                /\ Cardinality(Roots(users, d)) = 1
                /\ \A a \in Roots(users, d) : a.roles = ExpectedRoles(d) )

C9_Witness ==
    /\ \E s \in Sessions : status[s] = "aborted" /\ Last(log[s]).ev = "duplicate"
    /\ \E s \in Sessions : status[s] = "done"

====
